---- MODULE Spec2Model ----
(***************************************************************************)
(* Validation and dispatch layer of the viscribe python SDK.               *)
(*                                                                         *)
(* Two clients are modelled side by side: the blocking Client              *)
(* (viscribe/client.py, a requests.Session whose HTTPAdapter carries a     *)
(* urllib3 Retry) and the cooperative AsyncClient                          *)
(* (viscribe/async_client.py, an aiohttp.ClientSession with a hand-written *)
(* retry loop).  A call is a facade method invocation; it walks through    *)
(*   idle -> request -> inflight -> (backoff -> request)* -> done          *)
(* and records the HTTP attempts it issued, the outcomes it observed and   *)
(* the sleeps it inserted.                                                 *)
(*                                                                         *)
(* Python None is the value None below; Python strings are TLA+ strings,   *)
(* and Chars(s) gives the characters of the strings the model uses.        *)
(***************************************************************************)
EXTENDS Integers, Sequences, FiniteSets, TLC

VARIABLES
    settings,   \* keyword arguments the program passes to every constructor
    environ,    \* os.environ["VISCRIBE_API_KEY"] (None when unset)
    client,     \* client[k]: the Client / AsyncClient object, if constructed
    call,       \* call[c]: one facade invocation and its position
    built       \* the request object the program built last, if any

vars == <<settings, environ, client, call, built>>

\* ------------------------------------------------------------------ bounds
MaxRetries == 2
MaxDelay == 2
MaxCalls == 2

\* ------------------------------------------------------------- vocabulary
None == "<None>"

Kinds == {"Client", "AsyncClient"}

CallIds == 1..MaxCalls

Ops == {"describe", "extract", "classify", "ask", "compare", "feedback", "credits"}

\* Every operation sent as a POST.
MethodOf_always_post(op) == "POST"

\* The facade's fixed method per operation.
MethodOf(op) == IF op = "credits" THEN "GET" ELSE "POST"

\* The facade's fixed path per operation (appended to API_BASE_URL).
PathOf(op) ==
    CASE op = "describe" -> "/images/describe"
      [] op = "extract"  -> "/images/extract"
      [] op = "classify" -> "/images/classify"
      [] op = "ask"      -> "/images/ask"
      [] op = "compare"  -> "/images/compare"
      [] op = "feedback" -> "/feedback"
      [] op = "credits"  -> "/credits"

\* What one HTTP attempt can come back with: a response carrying a status
\* code and a JSON body, or a transport failure at the connection stage
\* (refused, DNS) or after the request was sent (reset, disconnect).
Response(s) == [kind |-> "response", status |-> s]

\* A response whose JSON body has an `error` key with the given text;
\* Response(s) is one whose body has none.
ErrorResponse(s, msg) == [kind |-> "response", status |-> s, error |-> msg]

ConnectFail == [kind |-> "connect_fail", status |-> 0]

ReadFail == [kind |-> "read_fail", status |-> 0]

IsTransportFailure(o) == o.kind \in {"connect_fail", "read_fail"}

\* The attempt ran into the timeout given at construction, while connecting
\* or while waiting for the response.
ConnectTimeout == [kind |-> "connect_timeout", status |-> 0]

ReadTimeout == [kind |-> "read_timeout", status |-> 0]

IsTimeout(o) == o.kind \in {"connect_timeout", "read_timeout"}

Statuses == {200, 400, 404, 500, 502, 503, 504}

AllOutcomes == {Response(s) : s \in Statuses} \cup {ConnectFail, ReadFail}

\* ------------------------------------------------------- urllib3 Retry
\* Retry(..., status_forcelist=[500, 502, 503, 504])
status_forcelist == {500, 502, 503, 504}

\* Retry.DEFAULT_ALLOWED_METHODS: the adapter's Retry keeps urllib3's default,
\* so a status or a read error is retried only for these methods.
allowed_methods == {"DELETE", "GET", "HEAD", "OPTIONS", "PUT", "TRACE"}

\* Retry.DEFAULT_BACKOFF_MAX (seconds)
BackoffMax == 120

RECURSIVE Pow2(_)
Pow2(n) == IF n <= 0 THEN 1 ELSE 2 * Pow2(n - 1)

Min(a, b) == IF a <= b THEN a ELSE b

\* Retry.get_backoff_time with backoff_factor = retry_delay: nothing after the
\* first consecutive error, then factor * 2^(errors - 1), capped.
get_backoff_time(backoff_factor, errs) ==
    IF errs <= 1 THEN 0 ELSE Min(BackoffMax, backoff_factor * Pow2(errs - 1))

\* Retry.is_retry: a response is retried by the adapter iff its method is
\* allowed and its status is in the forcelist.
is_retry(method, status) ==
    method \in allowed_methods /\ status \in status_forcelist

\* Retry.increment raises instead of counting when a read error hits a
\* method that is not allowed; connection-stage errors count for any method.
\* ConnectTimeoutError is a connection-stage error, ReadTimeoutError a read
\* error.
SyncRetriesError(method, o) ==
    \/ o.kind \in {"connect_fail", "connect_timeout"}
    \/ o.kind \in {"read_fail", "read_timeout"} /\ method \in allowed_methods

\* ------------------------------------------------------------- strings
\* The characters of every Python string the model's inputs are drawn from
\* (TLA+ strings cannot be indexed).
Chars(s) ==
    CASE s = "vscrb-123e4567-e89b-12d3-a456-426614174000" ->
          <<"v", "s", "c", "r", "b", "-", "1", "2", "3", "e", "4", "5", "6",
            "7", "-", "e", "8", "9", "b", "-", "1", "2", "d", "3", "-", "a",
            "4", "5", "6", "-", "4", "2", "6", "6", "1", "4", "1", "7", "4",
            "0", "0", "0">>
      [] s = "vscrb-123e4567e89b12d3a456426614174000" ->
          <<"v", "s", "c", "r", "b", "-", "1", "2", "3", "e", "4", "5", "6",
            "7", "e", "8", "9", "b", "1", "2", "d", "3", "a", "4", "5", "6",
            "4", "2", "6", "6", "1", "4", "1", "7", "4", "0", "0", "0">>
      [] s = "vscrb--123e4567-e89b-12d3-a456-426614174000" ->
          <<"v", "s", "c", "r", "b", "-", "-", "1", "2", "3", "e", "4", "5",
            "6", "7", "-", "e", "8", "9", "b", "-", "1", "2", "d", "3", "-",
            "a", "4", "5", "6", "-", "4", "2", "6", "6", "1", "4", "1", "7",
            "4", "0", "0", "0">>
      [] s = "vscrb123e4567-e89b-12d3-a456-426614174000" ->
          <<"v", "s", "c", "r", "b", "1", "2", "3", "e", "4", "5", "6", "7",
            "-", "e", "8", "9", "b", "-", "1", "2", "d", "3", "-", "a", "4",
            "5", "6", "-", "4", "2", "6", "6", "1", "4", "1", "7", "4", "0",
            "0", "0">>
      [] s = "vscrb-123e4567-e89b-12d3-a456-42661417400" ->
          <<"v", "s", "c", "r", "b", "-", "1", "2", "3", "e", "4", "5", "6",
            "7", "-", "e", "8", "9", "b", "-", "1", "2", "d", "3", "-", "a",
            "4", "5", "6", "-", "4", "2", "6", "6", "1", "4", "1", "7", "4",
            "0", "0">>
      [] s = "vscrb-123e4567-e89b-12d3-a456-42661417400g" ->
          <<"v", "s", "c", "r", "b", "-", "1", "2", "3", "e", "4", "5", "6",
            "7", "-", "e", "8", "9", "b", "-", "1", "2", "d", "3", "-", "a",
            "4", "5", "6", "-", "4", "2", "6", "6", "1", "4", "1", "7", "4",
            "0", "0", "g">>
      [] s = "vscrb-{123e4567-e89b-12d3-a456-426614174000}" ->
          <<"v", "s", "c", "r", "b", "-", "{", "1", "2", "3", "e", "4", "5",
            "6", "7", "-", "e", "8", "9", "b", "-", "1", "2", "d", "3", "-",
            "a", "4", "5", "6", "-", "4", "2", "6", "6", "1", "4", "1", "7",
            "4", "0", "0", "0", "}">>
      [] s = "vscrb-" -> <<"v", "s", "c", "r", "b", "-">>
      [] s = "badkey" -> <<"b", "a", "d", "k", "e", "y">>
      [] s = "https://img.com/cat.jpg" ->
          <<"h", "t", "t", "p", "s", ":", "/", "/", "i", "m", "g", ".", "c",
            "o", "m", "/", "c", "a", "t", ".", "j", "p", "g">>
      [] s = "http://a.io" ->
          <<"h", "t", "t", "p", ":", "/", "/", "a", ".", "i", "o">>
      [] s = "HTTPS://a.io/x" ->
          <<"H", "T", "T", "P", "S", ":", "/", "/", "a", ".", "i", "o", "/",
            "x">>
      [] s = "ftp://a.io/x" ->
          <<"f", "t", "p", ":", "/", "/", "a", ".", "i", "o", "/", "x">>
      [] s = "img.com/cat.jpg" ->
          <<"i", "m", "g", ".", "c", "o", "m", "/", "c", "a", "t", ".", "j",
            "p", "g">>
      [] s = "https:///cat.jpg" ->
          <<"h", "t", "t", "p", "s", ":", "/", "/", "/", "c", "a", "t", ".",
            "j", "p", "g">>
      [] s = "//img.com/x" ->
          <<"/", "/", "i", "m", "g", ".", "c", "o", "m", "/", "x">>
      [] s = "http:img.com" ->
          <<"h", "t", "t", "p", ":", "i", "m", "g", ".", "c", "o", "m">>
      [] s = "aGk=" -> <<"a", "G", "k", "=">>
      [] s = "data:image/png;base64,aGk=" ->
          <<"d", "a", "t", "a", ":", "i", "m", "a", "g", "e", "/", "p", "n",
            "g", ";", "b", "a", "s", "e", "6", "4", ",", "a", "G", "k", "=">>
      [] s = "data:image/png;base64," ->
          <<"d", "a", "t", "a", ":", "i", "m", "a", "g", "e", "/", "p", "n",
            "g", ";", "b", "a", "s", "e", "6", "4", ",">>
      [] s = "data:image/png" ->
          <<"d", "a", "t", "a", ":", "i", "m", "a", "g", "e", "/", "p", "n",
            "g">>
      [] s = "aGk" -> <<"a", "G", "k">>
      [] s = "a k=" -> <<"a", " ", "k", "=">>
      [] s = "What is this?" ->
          <<"W", "h", "a", "t", " ", "i", "s", " ", "t", "h", "i", "s", "?">>
      [] s = "123e4567-e89b-12d3-a456-426614174000" ->
          <<"1", "2", "3", "e", "4", "5", "6", "7", "-", "e", "8", "9", "b",
            "-", "1", "2", "d", "3", "-", "a", "4", "5", "6", "-", "4", "2",
            "6", "6", "1", "4", "1", "7", "4", "0", "0", "0">>
      [] s = "not-a-uuid" ->
          <<"n", "o", "t", "-", "a", "-", "u", "u", "i", "d">>
      [] s = "" -> <<>>

Digits == {"0", "1", "2", "3", "4", "5", "6", "7", "8", "9"}

LowerLetters ==
    {"a", "b", "c", "d", "e", "f", "g", "h", "i", "j", "k", "l", "m",
     "n", "o", "p", "q", "r", "s", "t", "u", "v", "w", "x", "y", "z"}

UpperLetters ==
    {"A", "B", "C", "D", "E", "F", "G", "H", "I", "J", "K", "L", "M",
     "N", "O", "P", "Q", "R", "S", "T", "U", "V", "W", "X", "Y", "Z"}

HexDigits == Digits \cup {"a", "b", "c", "d", "e", "f", "A", "B", "C", "D", "E", "F"}

\* str.lower() on the letters that occur in upper case in the model's inputs.
Lower(ch) ==
    CASE ch = "H" -> "h" [] ch = "T" -> "t" [] ch = "P" -> "p"
      [] ch = "S" -> "s" [] ch = "F" -> "f" [] OTHER -> ch

LowerSeq(cs) == [i \in 1..Len(cs) |-> Lower(cs[i])]

\* s.startswith(p)
StartsWith(cs, p) == Len(cs) >= Len(p) /\ SubSeq(cs, 1, Len(p)) = p

\* s[n:]
Drop(cs, n) == SubSeq(cs, n + 1, Len(cs))

\* s.find(ch), 1-based; 0 when ch does not occur
Find(cs, chs) ==
    IF \E i \in 1..Len(cs) : cs[i] \in chs
    THEN CHOOSE i \in 1..Len(cs) :
            cs[i] \in chs /\ \A j \in 1..(i - 1) : cs[j] \notin chs
    ELSE 0

\* s.replace(pat, "")
RECURSIVE Remove(_, _)
Remove(cs, pat) ==
    IF Len(cs) < Len(pat) THEN cs
    ELSE IF SubSeq(cs, 1, Len(pat)) = pat THEN Remove(Drop(cs, Len(pat)), pat)
    ELSE <<Head(cs)>> \o Remove(Tail(cs), pat)

\* s.strip(chs)
RECURSIVE Strip(_, _)
Strip(cs, chs) ==
    IF cs = <<>> THEN cs
    ELSE IF cs[1] \in chs THEN Strip(Tail(cs), chs)
    ELSE IF cs[Len(cs)] \in chs THEN Strip(SubSeq(cs, 1, Len(cs) - 1), chs)
    ELSE cs

\* uuid.UUID(hex) succeeds: 'urn:' and 'uuid:' removed, braces stripped from
\* the ends, every hyphen removed, and 32 hexadecimal digits left.
UUID(cs) ==
    LET hex == Remove(Strip(Remove(Remove(cs, <<"u", "r", "n", ":">>),
                                   <<"u", "u", "i", "d", ":">>),
                            {"{", "}"}),
                      <<"-">>)
    IN  Len(hex) = 32 /\ \A i \in 1..Len(hex) : hex[i] \in HexDigits

\* ------------------------------------------------------- utils/helpers.py
\* validate_api_key without its UUID check.
validate_api_key_prefix_only(api_key) ==
    StartsWith(Chars(api_key), <<"v", "s", "c", "r", "b", "-">>)

\* validate_api_key: TRUE when it returns, FALSE when it raises ValueError.
\* The slice is api_key[5:], which keeps the prefix's hyphen.
validate_api_key(api_key) ==
    /\ StartsWith(Chars(api_key), <<"v", "s", "c", "r", "b", "-">>)
    /\ UUID(Drop(Chars(api_key), 5))

\* urllib.parse.urlparse(url), the two parts validate_url_format reads.
urlparse(cs) ==
    LET i == Find(cs, {":"})
        scheme_chars == LowerLetters \cup UpperLetters \cup Digits \cup {"+", "-", "."}
        has_scheme ==
            /\ i > 1
            /\ cs[1] \in LowerLetters \cup UpperLetters
            /\ \A j \in 1..(i - 1) : cs[j] \in scheme_chars
        scheme == IF has_scheme THEN LowerSeq(SubSeq(cs, 1, i - 1)) ELSE <<>>
        rest == IF has_scheme THEN Drop(cs, i) ELSE cs
        after == Drop(rest, 2)
        stop == Find(after, {"/", "?", "#"})
        netloc ==
            IF StartsWith(rest, <<"/", "/">>)
            THEN (IF stop = 0 THEN after ELSE SubSeq(after, 1, stop - 1))
            ELSE <<>>
    IN  [scheme |-> scheme, netloc |-> netloc]

\* validate_url_format: TRUE when it returns, FALSE when it raises ValueError.
validate_url_format(url) ==
    LET result == urlparse(Chars(url))
    IN  /\ result.scheme # <<>> /\ result.netloc # <<>>
        /\ result.scheme \in {<<"h", "t", "t", "p">>, <<"h", "t", "t", "p", "s">>}

\* base64.b64decode(s, validate=True): the number of bytes decoded, or -1
\* when it raises binascii.Error (a ValueError).
b64decode(cs) ==
    LET n == Len(cs)
        alphabet == LowerLetters \cup UpperLetters \cup Digits \cup {"+", "/"}
        pad == IF n >= 2 /\ cs[n] = "=" /\ cs[n - 1] = "=" THEN 2
               ELSE IF n >= 1 /\ cs[n] = "=" THEN 1 ELSE 0
    IN  IF n % 4 = 0 /\ \A i \in 1..(n - pad) : cs[i] \in alphabet
        THEN (3 * (n \div 4)) - pad
        ELSE -1

\* validate_base64_image: TRUE when it returns, FALSE when it raises ValueError.
validate_base64_image(b64) ==
    LET cs == Chars(b64)
        comma == Find(cs, {","})
        b64_part ==
            IF StartsWith(cs, <<"d", "a", "t", "a", ":", "i", "m", "a", "g", "e", "/">>)
               /\ comma # 0
            THEN Drop(cs, comma)
            ELSE cs
    IN  b64decode(b64_part) > 0

\* Python truthiness of an Optional[str]
Truthy(x) == x # None /\ x # ""

\* ------------------------------------------------------- models/image.py
\* check_image_source without its "not both" check.
check_image_source_allows_both(url, b64) ==
    IF ~Truthy(url) /\ ~Truthy(b64) THEN "no_image_source"
    ELSE IF Truthy(url) /\ ~validate_url_format(url) THEN "invalid_image_url"
    ELSE IF Truthy(b64) /\ ~validate_base64_image(b64) THEN "invalid_image_base64"
    ELSE "ok"

\* check_image_source testing `is not None` where the code tests truthiness:
\* an empty string counts as given.
check_image_source_is_not_none(url, b64) ==
    IF url = None /\ b64 = None THEN "no_image_source"
    ELSE IF url # None /\ b64 # None THEN "both_image_sources"
    ELSE IF url # None /\ ~validate_url_format(url) THEN "invalid_image_url"
    ELSE IF b64 # None /\ ~validate_base64_image(b64) THEN "invalid_image_base64"
    ELSE "ok"

\* ImageSourceBase.check_image_source: "ok", or the error it raises.
check_image_source(url, b64) ==
    IF ~Truthy(url) /\ ~Truthy(b64) THEN "no_image_source"
    ELSE IF Truthy(url) /\ Truthy(b64) THEN "both_image_sources"
    ELSE IF Truthy(url) /\ ~validate_url_format(url) THEN "invalid_image_url"
    ELSE IF Truthy(b64) /\ ~validate_base64_image(b64) THEN "invalid_image_base64"
    ELSE "ok"

\* An Optional list or dict argument: <<>> is Python None, <<v>> is the value v.
NoneV == <<>>

Some(v) == <<v>>

IsNone(x) == Len(x) = 0

\* ExtractField.validate_type
valid_types == {"text", "number", "array_text", "array_number"}

\* ImageExtractRequest.fields: Field(max_length=10)
MaxFields == 10

\* Python truthiness of an Optional[list] / Optional[dict]
TruthyList(x) == ~IsNone(x) /\ Len(x[1]) > 0

TruthyDict(x) == ~IsNone(x) /\ DOMAIN x[1] # {}

\* check_schema_or_fields without its "not both" check.
check_schema_or_fields_allows_both(fields, advanced_schema) ==
    IF ~TruthyList(fields) /\ ~TruthyDict(advanced_schema)
    THEN "no_fields_or_schema"
    ELSE IF TruthyDict(advanced_schema)
            /\ LET d == advanced_schema[1]
               IN  \/ "type" \notin DOMAIN d
                   \/ d.type # "object"
                   \/ "properties" \notin DOMAIN d
                   \/ d.properties = {}
    THEN "invalid_advanced_schema"
    ELSE "ok"

\* check_schema_or_fields testing `is not None` where the code tests
\* truthiness: an empty list or dict counts as given.
check_schema_or_fields_is_not_none(fields, advanced_schema) ==
    IF IsNone(fields) /\ IsNone(advanced_schema)
    THEN "no_fields_or_schema"
    ELSE IF ~IsNone(fields) /\ ~IsNone(advanced_schema)
    THEN "both_fields_and_schema"
    ELSE IF ~IsNone(advanced_schema)
            /\ LET d == advanced_schema[1]
               IN  \/ "type" \notin DOMAIN d
                   \/ d.type # "object"
                   \/ "properties" \notin DOMAIN d
                   \/ d.properties = {}
    THEN "invalid_advanced_schema"
    ELSE "ok"

\* ImageExtractRequest.check_schema_or_fields: "ok", or the error it raises.
check_schema_or_fields(fields, advanced_schema) ==
    IF ~TruthyList(fields) /\ ~TruthyDict(advanced_schema)
    THEN "no_fields_or_schema"
    ELSE IF TruthyList(fields) /\ TruthyDict(advanced_schema)
    THEN "both_fields_and_schema"
    ELSE IF TruthyDict(advanced_schema)
            /\ LET d == advanced_schema[1]
               IN  \/ "type" \notin DOMAIN d
                   \/ d.type # "object"
                   \/ "properties" \notin DOMAIN d
                   \/ d.properties = {}
    THEN "invalid_advanced_schema"
    ELSE "ok"

\* ExtractField(name=..., type=...): validate_type
ExtractField(field) ==
    IF field.type \in valid_types THEN "ok" ELSE "invalid_field_type"

\* ImageExtractRequest(...): the before-validator, then the field constraints
\* (max_length, and every entry an ExtractField), then the after-validator.
ImageExtractRequest(image_url, image_base64, fields, advanced_schema) ==
    IF check_image_source(image_url, image_base64) # "ok"
    THEN check_image_source(image_url, image_base64)
    ELSE IF ~IsNone(fields) /\ Len(fields[1]) > MaxFields THEN "too_many_fields"
    ELSE IF ~IsNone(fields)
            /\ \E i \in 1..Len(fields[1]) : ExtractField(fields[1][i]) # "ok"
    THEN "invalid_field_type"
    ELSE check_schema_or_fields(fields, advanced_schema)

\* ImageAskRequest(...): question is a required str; any str passes.
ImageAskRequest(image_url, image_base64, question) ==
    IF check_image_source(image_url, image_base64) # "ok"
    THEN check_image_source(image_url, image_base64)
    ELSE IF question = None THEN "question_not_a_string"
    ELSE "ok"

\* FeedbackRequest(...): rating ge=1, le=5, then validate_request_id.
FeedbackRequest(request_id, rating) ==
    IF rating < 1 \/ rating > 5 THEN "rating_out_of_range"
    ELSE IF ~UUID(Chars(request_id)) THEN "invalid_request_id"
    ELSE "ok"

\* ImageCompareRequest(...): four Optional[str] fields and no validator.
ImageCompareRequest(image1_url, image1_base64, image2_url, image2_base64) ==
    "ok"

\* The request class of an operation, constructed from its field values:
\* "ok", or the validation error the constructor raises.
RequestModel(op, args) ==
    CASE op \in {"describe", "classify"} ->
            check_image_source(args.image_url, args.image_base64)
      [] op = "ask" ->
            ImageAskRequest(args.image_url, args.image_base64, args.question)
      [] op = "extract" ->
            ImageExtractRequest(args.image_url, args.image_base64,
                                args.fields, args.advanced_schema)
      [] op = "compare" ->
            ImageCompareRequest(args.image1_url, args.image1_base64,
                                args.image2_url, args.image2_base64)
      [] op = "feedback" ->
            FeedbackRequest(args.request_id, args.rating)

\* The fields a response class requires, and those it declares optional.
RequiredFields(op) ==
    CASE op = "describe" -> {"request_id", "credits_used", "image_description"}
      [] op = "extract"  -> {"request_id", "credits_used", "extracted_data"}
      [] op = "classify" -> {"request_id", "credits_used", "classification"}
      [] op = "ask"      -> {"request_id", "credits_used", "answer"}
      [] op = "compare"  -> {"request_id", "credits_used", "comparison_result"}
      [] op = "credits"  -> {"remaining_credits", "total_credits_used"}
      [] op = "feedback" ->
            {"feedback_id", "request_id", "message", "feedback_timestamp"}

OptionalFields(op) == IF op = "describe" THEN {"tags"} ELSE {}

\* XResponse(**result) on a JSON object with the given keys (values of the
\* declared types): a BaseModel with the default configuration raises for a
\* missing required field and ignores a key it does not declare.
ResponseModel(op, keys) ==
    IF RequiredFields(op) \subseteq keys THEN "ok" ELSE "ValidationError"

\* --------------------------------------------------------------- facade
\* Python binds the call's arguments to the method's parameters: "ok", or
\* "TypeError".  form "keywords": the operation's field values as keyword
\* arguments; form "request": a request object as the one positional
\* argument.  Client.submit_feedback(request) has no request_id / rating
\* parameter, AsyncClient.submit_feedback needs rating, get_credits takes
\* no argument.
BindArguments(k, op, form) ==
    IF form = "keywords"
    THEN IF k = "Client" /\ op = "feedback" THEN "TypeError" ELSE "ok"
    ELSE IF op = "credits" \/ (k = "AsyncClient" /\ op = "feedback")
         THEN "TypeError" ELSE "ok"

\* The request a facade method builds when its first parameter (image_url,
\* image1_url) is bound to a request object: check_image_source finds the
\* URL truthy and validate_url_format rejects it (urlparse of a non-string);
\* ImageCompareRequest rejects it as not a string.  Client.submit_feedback
\* builds nothing and dumps the object it was given.
BuildRequestFromObject(k, op) ==
    CASE op \in {"describe", "classify", "ask", "extract"} -> "invalid_image_url"
      [] op = "compare" -> "image1_url_not_a_string"
      [] OTHER -> "ok"

\* model_dump(exclude_none=True): a field is a key of the payload unless its
\* value is None.
Opt(key, v) == IF v = None THEN <<>> ELSE key :> v

OptV(key, x) == IF IsNone(x) THEN <<>> ELSE key :> x[1]

\* The json= argument of _make_request.  The facade passes instruction=None
\* and the defaults generate_tags=True, multi_label=False;
\* Client.submit_feedback dumps without exclude_none.
Payload(k, op, args) ==
    CASE op = "describe" ->
            Opt("image_url", args.image_url)
            @@ Opt("image_base64", args.image_base64)
            @@ ("generate_tags" :> TRUE)
      [] op = "classify" ->
            Opt("image_url", args.image_url)
            @@ Opt("image_base64", args.image_base64)
            @@ ("multi_label" :> FALSE)
      [] op = "ask" ->
            Opt("image_url", args.image_url)
            @@ Opt("image_base64", args.image_base64)
            @@ Opt("question", args.question)
      [] op = "compare" ->
            Opt("image1_url", args.image1_url)
            @@ Opt("image1_base64", args.image1_base64)
            @@ Opt("image2_url", args.image2_url)
            @@ Opt("image2_base64", args.image2_base64)
      [] op = "extract" /\ k = "AsyncClient" ->
            Opt("image_url", args.image_url)
            @@ Opt("image_base64", args.image_base64)
            @@ OptV("fields", args.fields)
            @@ OptV("advanced_schema", args.advanced_schema)
      [] op = "extract" /\ k = "Client" ->
            Opt("image_url", args.image_url)
            @@ Opt("image_base64", args.image_base64)
      [] op = "feedback" /\ k = "AsyncClient" ->
            ("request_id" :> args.request_id) @@ ("rating" :> args.rating)
      [] op = "feedback" /\ k = "Client" ->
            ("request_id" :> args.request_id) @@ ("rating" :> args.rating)
            @@ ("feedback_text" :> None)
      [] op = "credits" -> <<>>

\* The request a facade method builds from its keyword arguments before it
\* calls _make_request: "ok", or the validation error the constructor raises.
\* AsyncClient.extract_image turns the entries of fields into ExtractField
\* objects first; Client.extract_image passes output_schema, a name
\* ImageExtractRequest does not have, so neither fields nor advanced_schema
\* is ever set there.
BuildRequest(k, op, args) ==
    CASE op \in {"describe", "classify"} ->
            check_image_source(args.image_url, args.image_base64)
      [] op = "ask" ->
            ImageAskRequest(args.image_url, args.image_base64, args.question)
      [] op = "extract" /\ k = "AsyncClient" ->
            IF ~IsNone(args.fields)
               /\ \E i \in 1..Len(args.fields[1]) :
                      ExtractField(args.fields[1][i]) # "ok"
            THEN "invalid_field_type"
            ELSE ImageExtractRequest(args.image_url, args.image_base64,
                                     args.fields, args.advanced_schema)
      [] op = "compare" ->
            ImageCompareRequest(args.image1_url, args.image1_base64,
                                args.image2_url, args.image2_base64)
      [] op = "extract" /\ k = "Client" ->
            ImageExtractRequest(args.image_url, args.image_base64, NoneV, NoneV)
      [] op = "feedback" /\ k = "AsyncClient" ->
            FeedbackRequest(args.request_id, args.rating)
      [] OTHER -> "ok"

\* --------------------------------------------------------- call records
\* form: how the facade method was called ("keywords", or "request" when it
\* was handed a request object); payload: the json= argument; sent: the
\* method and path of every attempt issued; reply / decoded: the keys of the
\* JSON object _make_request returned and what the response type made of it.
IdleCall ==
    [pc |-> "idle", kind |-> "-", op |-> "-", method |-> "-", path |-> "-",
     args |-> <<>>, invoked_closed |-> FALSE,
     attempt |-> 0, total |-> 0, errs |-> 0,
     attempts |-> 0, waits |-> <<>>, outcomes |-> <<>>,
     result |-> "-", error |-> "-", status |-> 0, message |-> "-",
     form |-> "-", payload |-> <<>>, sent |-> <<>>,
     reply |-> {}, decoded |-> "-"]

AbsentClient ==
    [state |-> "absent", arg_key |-> None, api_key |-> None, session |-> FALSE,
     error |-> "-", via |-> "init", max_retries |-> 0, retry_delay |-> 0, timeout |-> NoneV]

\* No request object has been built.
NoRequest == [op |-> "-", args |-> <<>>, result |-> "-", error |-> "-"]

\* The call has entered _make_request and has not left it.
InFlight(c) == call[c].pc \in {"request", "inflight", "backoff"}

Raise(r, exc) == [r EXCEPT !.pc = "done", !.result = exc]

\* ------------------------------------------------- Client._make_request
\* Retry.increment followed by Retry.sleep, inside the adapter's urlopen:
\* one more error is counted against total; an exhausted Retry raises
\* MaxRetryError, which requests wraps in a RequestException that carries no
\* response, so _make_request raises ConnectionError; otherwise the adapter
\* sleeps get_backoff_time (not at all when it is 0) and sends again.
RetryIncrement(r, cl) ==
    LET total == r.total - 1
        errs == r.errs + 1
        backoff == get_backoff_time(cl.retry_delay, errs)
    IN  IF total < 0
        THEN Raise([r EXCEPT !.total = total, !.errs = errs], "ConnectionError")
        ELSE [r EXCEPT !.total = total, !.errs = errs,
                       !.waits = Append(@, backoff),
                       !.pc = IF backoff > 0 THEN "backoff" ELSE "request"]

\* handle_sync_response / handle_async_response on a response with a JSON body
\* and the APIError they raise, which keeps its message and status_code.
APIError(message, status_code) ==
    [message |-> message, status_code |-> status_code]

UnknownError == "Unknown error occurred"

handle_response(r, o) ==
    IF o.status >= 400
    THEN LET error_msg == IF "error" \in DOMAIN o THEN o.error ELSE UnknownError
             e == APIError(error_msg, o.status)
         IN  [Raise(r, "APIError") EXCEPT !.status = e.status_code,
                                          !.message = e.message]
    ELSE [r EXCEPT !.pc = "done", !.result = "ok", !.status = o.status]

\* What session.request(...) and the rest of Client._make_request do with the
\* outcome o of the attempt in flight.
SyncReceive(r, cl, o) ==
    IF o.kind = "response"
    THEN IF is_retry(r.method, o.status)
         THEN RetryIncrement(r, cl)
         ELSE handle_response(r, o)
    ELSE IF SyncRetriesError(r.method, o)
         THEN RetryIncrement(r, cl)
         ELSE Raise(r, "ConnectionError")

\* AsyncReceive with the attempt counter kept on the client, shared by its
\* calls, instead of in the loop variable of each call.
AsyncReceiveSharedAttempt(r, cl, o) ==
    LET mine == {call[c].attempt : c \in {d \in DOMAIN call : call[d].kind = r.kind}}
        attempt == CHOOSE a \in mine : \A b \in mine : b <= a
    IN  IF o.kind = "response"
        THEN handle_response(r, o)
        ELSE IF attempt = cl.max_retries - 1
             THEN Raise(r, "ConnectionError")
             ELSE [r EXCEPT !.waits = Append(@, cl.retry_delay * (attempt + 1)),
                            !.attempt = attempt + 1,
                            !.pc = "backoff"]

\* -------------------------------------------- AsyncClient._make_request
\* The loop body of `for attempt in range(self.max_retries)` on the outcome o
\* of the attempt in flight.
\* ClientTimeout(total=timeout) ends the attempt with asyncio.TimeoutError,
\* which is not an aiohttp ClientError: the except clause does not apply.
AsyncReceive(r, cl, o) ==
    IF o.kind = "response"
    THEN handle_response(r, o)
    ELSE IF IsTimeout(o)
    THEN Raise(r, "TimeoutError")
    ELSE IF r.attempt = cl.max_retries - 1
         THEN Raise(r, "ConnectionError")
         ELSE [r EXCEPT !.waits = Append(@, cl.retry_delay * (r.attempt + 1)),
                        !.attempt = @ + 1,
                        !.pc = "backoff"]

\* ---------------------------------------------------------------- actions
\* The key an api_key argument stands for, by the same rule as
\* ResolveApiKey, but taking the environment's value whenever it has one.
ResolveApiKey_env_first(api_key, env) ==
    IF Truthy(env) THEN env ELSE api_key

\* `if api_key is None: api_key = getenv("VISCRIBE_API_KEY")`: the key the
\* constructor goes on with, given its argument and the environment.
ResolveApiKey(api_key, env) ==
    IF api_key = None THEN env ELSE api_key

\* The object __init__ leaves behind for the given api_key argument: raised
\* ValueError (no key anywhere, or a key validate_api_key rejects), or a
\* client holding the key, the settings and a session.
NewClient(api_key) ==
    LET key == ResolveApiKey(api_key, environ)
    IN  IF api_key = None /\ ~Truthy(key)
        THEN [AbsentClient EXCEPT !.state = "failed", !.arg_key = api_key,
                                  !.error = "key_not_provided"]
        ELSE IF ~validate_api_key(key)
        THEN [AbsentClient EXCEPT !.state = "failed", !.arg_key = api_key,
                                  !.error = "invalid_api_key"]
        ELSE [state |-> "open", arg_key |-> api_key, api_key |-> key,
              session |-> TRUE, error |-> "-", via |-> "init",
              max_retries |-> settings.max_retries,
              retry_delay |-> settings.retry_delay,
              timeout |-> settings.timeout]

\* Client.__init__ / AsyncClient.__init__ with the given api_key argument
\* (None: read VISCRIBE_API_KEY) and the program's settings.
Construct(k, api_key) ==
    /\ client[k].state = "absent"
    /\ client' = [client EXCEPT ![k] = NewClient(api_key)]
    /\ UNCHANGED <<settings, environ, call, built>>

\* Client.from_env / AsyncClient.from_env: VISCRIBE_API_KEY is read and, when
\* it is set and not empty, handed to the constructor as its api_key.
from_env(k) ==
    /\ client[k].state = "absent"
    /\ client' = [client EXCEPT ![k] =
           IF ~Truthy(environ)
           THEN [AbsentClient EXCEPT !.state = "failed", !.via = "from_env",
                                     !.error = "env_not_set"]
           ELSE [NewClient(environ) EXCEPT !.via = "from_env"]]
    /\ UNCHANGED <<settings, environ, call, built>>

\* A facade method up to its call of _make_request, as a call record: the
\* arguments are bound, the request is built (v is what its constructor
\* said) and dumped, and _make_request is entered only when all that
\* succeeded.  AsyncClient's loop over range(max_retries) has no iteration
\* when max_retries is 0, and then _make_request falls off its end and
\* returns None.
FacadeCall(k, op, args, form, v) ==
    LET r == [IdleCall EXCEPT !.kind = k, !.op = op, !.args = args,
                              !.form = form,
                              !.invoked_closed = (client[k].state = "closed")]
        m == [r EXCEPT !.method = MethodOf(op), !.path = PathOf(op),
                       !.payload = Payload(k, op, args),
                       !.total = client[k].max_retries]
    IN  IF BindArguments(k, op, form) # "ok"
        THEN [Raise(r, "TypeError") EXCEPT !.error = "arguments"]
        ELSE IF v # "ok"
        THEN [Raise(r, "ValidationError") EXCEPT !.error = v]
        ELSE IF k = "AsyncClient" /\ client[k].max_retries <= 0
        THEN [m EXCEPT !.pc = "done", !.result = "None"]
        ELSE [m EXCEPT !.pc = "request"]

\* A facade method is called with the operation's field values as keyword
\* arguments.
Invoke(c, k, op, args) ==
    /\ call[c].pc = "idle"
    /\ client[k].state \in {"open", "closed"}
    /\ call' = [call EXCEPT ![c] =
           FacadeCall(k, op, args, "keywords", BuildRequest(k, op, args))]
    /\ UNCHANGED <<settings, environ, client, built>>

\* The program constructs a request object itself, as the tests do:
\* req = ImageDescribeRequest(image_url=...).
NewRequest(op, args) ==
    /\ built = NoRequest
    /\ built' = [op |-> op, args |-> args,
                 result |-> IF RequestModel(op, args) = "ok"
                            THEN "Request" ELSE "ValidationError",
                 error |-> RequestModel(op, args)]
    /\ UNCHANGED <<settings, environ, client, call>>

\* A facade method is called with the request object built before as its one
\* positional argument: client.describe_image(req).
InvokeWithRequest(c, k) ==
    /\ call[c].pc = "idle"
    /\ client[k].state \in {"open", "closed"}
    /\ built.result = "Request"
    /\ call' = [call EXCEPT ![c] =
           FacadeCall(k, built.op, built.args, "request",
                      BuildRequestFromObject(k, built.op))]
    /\ UNCHANGED <<settings, environ, client, built>>

\* return XResponse(**result): the facade decodes the JSON object that
\* _make_request returned, whose keys are body.
Decode(c, body) ==
    /\ call[c].pc = "done" /\ call[c].result = "ok" /\ call[c].decoded = "-"
    /\ call' = [call EXCEPT ![c].reply = body,
                            ![c].decoded = ResponseModel(call[c].op, body)]
    /\ UNCHANGED <<settings, environ, client, built>>

\* self.session.request(method, url, ...): an HTTP attempt goes out.  A closed
\* aiohttp session raises RuntimeError("Session is closed") instead, which
\* `except ClientError` does not catch; a closed requests session opens new
\* connections and sends.
SendAttempt(c) ==
    /\ call[c].pc = "request"
    /\ call' = [call EXCEPT ![c] =
           IF @.kind = "AsyncClient" /\ client[@.kind].state = "closed"
           THEN Raise(@, "RuntimeError")
           ELSE [@ EXCEPT !.pc = "inflight", !.attempts = @ + 1,
                          !.sent = Append(@, [method |-> call[c].method,
                                              path |-> call[c].path])]]
    /\ UNCHANGED <<settings, environ, client, built>>

\* The attempt in flight ends with outcome o.
\* An attempt can time out only on a client that was given a timeout.
Receive(c, o) ==
    /\ call[c].pc = "inflight"
    /\ IsTimeout(o) => ~IsNone(client[call[c].kind].timeout)
    /\ LET r == [call[c] EXCEPT !.outcomes = Append(@, o)]
           cl == client[r.kind]
       IN  call' = [call EXCEPT ![c] =
               IF r.kind = "Client" THEN SyncReceive(r, cl, o)
               ELSE AsyncReceive(r, cl, o)]
    /\ UNCHANGED <<settings, environ, client, built>>

\* time.sleep / asyncio.sleep returns.
Wake(c) ==
    /\ call[c].pc = "backoff"
    /\ call' = [call EXCEPT ![c].pc = "request"]
    /\ UNCHANGED <<settings, environ, client, built>>

\* close(), also reached through __exit__ / __aexit__: session.close().
Close(k) ==
    /\ client[k].state = "open"
    /\ client' = [client EXCEPT ![k].state = "closed"]
    /\ UNCHANGED <<settings, environ, call, built>>

\* ---------------------------------------------------------- input domains
ValidKey == "vscrb-123e4567-e89b-12d3-a456-426614174000"

GoodUrl == "https://img.com/cat.jpg"

GoodB64 == "aGk="

GoodSchema == [type |-> "object", properties |-> {"product_name"}]

GoodField == [name |-> "title", type |-> "text"]

GoodRequestId == "123e4567-e89b-12d3-a456-426614174000"

\* One well-formed argument list per operation, as the examples pass them.
ValidArgs(k, op) ==
    CASE op \in {"describe", "classify"} ->
            [image_url |-> GoodUrl, image_base64 |-> None]
      [] op = "ask" ->
            [image_url |-> GoodUrl, image_base64 |-> None,
             question |-> "What is this?"]
      [] op = "compare" ->
            [image1_url |-> GoodUrl, image1_base64 |-> None,
             image2_url |-> None, image2_base64 |-> GoodB64]
      [] op = "extract" /\ k = "AsyncClient" ->
            [image_url |-> GoodUrl, image_base64 |-> None,
             fields |-> NoneV, advanced_schema |-> Some(GoodSchema)]
      [] op = "extract" /\ k = "Client" ->
            [image_url |-> GoodUrl, image_base64 |-> None,
             output_schema |-> Some(GoodSchema)]
      [] op = "feedback" ->
            [request_id |-> GoodRequestId, rating |-> 5]
      [] op = "credits" -> <<>>

SettingsDomain ==
    [max_retries : 0..MaxRetries, retry_delay : 1..MaxDelay, timeout : {NoneV}]

Init ==
    /\ settings \in SettingsDomain
    /\ environ = None
    /\ client = [k \in Kinds |-> AbsentClient]
    /\ call = [c \in CallIds |-> IdleCall]
    /\ built = NoRequest

\* Argument lists for the facade specification: every combination of the
\* strings below, well-formed and not.
UrlDomain ==
    {None, "", "https://img.com/cat.jpg", "http://a.io", "HTTPS://a.io/x",
     "ftp://a.io/x", "img.com/cat.jpg", "https:///cat.jpg", "//img.com/x",
     "http:img.com"}

B64Domain ==
    {None, "", "aGk=", "data:image/png;base64,aGk=", "data:image/png;base64,",
     "data:image/png", "aGk", "a k="}

QuestionDomain == {None, "", "What is this?"}

KeyDomain ==
    {None, "", "badkey", "vscrb-",
     "vscrb-123e4567-e89b-12d3-a456-426614174000",
     "vscrb-123e4567e89b12d3a456426614174000",
     "vscrb--123e4567-e89b-12d3-a456-426614174000",
     "vscrb123e4567-e89b-12d3-a456-426614174000",
     "vscrb-123e4567-e89b-12d3-a456-42661417400",
     "vscrb-123e4567-e89b-12d3-a456-42661417400g",
     "vscrb-{123e4567-e89b-12d3-a456-426614174000}"}

EnvDomain == {None, "", "badkey", ValidKey}

FieldsDomain ==
    {NoneV, Some(<<>>), Some(<<GoodField>>),
     Some(<<GoodField, [name |-> "price", type |-> "money"]>>),
     Some([i \in 1..(MaxFields + 1) |-> GoodField])}

SchemaDomain ==
    {NoneV, Some(<<>>), Some(GoodSchema),
     Some([type |-> "array", properties |-> {"product_name"}]),
     Some([type |-> "object"]),
     Some([type |-> "object", properties |-> {}])}

ArgDomain(k, op) ==
    CASE op \in {"describe", "classify"} ->
            [image_url : UrlDomain, image_base64 : B64Domain]
      [] op = "ask" ->
            [image_url : {None, "", GoodUrl, "ftp://a.io/x"},
             image_base64 : {None, "", GoodB64, "aGk"},
             question : QuestionDomain]
      [] op = "compare" ->
            [image1_url : {None, GoodUrl, "ftp://a.io/x"},
             image1_base64 : {None, GoodB64},
             image2_url : {None, GoodUrl},
             image2_base64 : {None, GoodB64, "aGk"}]
      [] op = "extract" /\ k = "AsyncClient" ->
            [image_url : {None, GoodUrl}, image_base64 : {None, GoodB64},
             fields : {NoneV, Some(<<GoodField>>)},
             advanced_schema : {NoneV, Some(GoodSchema)}]
      [] op = "extract" /\ k = "Client" ->
            [image_url : {None, GoodUrl}, image_base64 : {None, GoodB64},
             output_schema : {NoneV, Some(GoodSchema)}]
      [] op = "feedback" ->
            [request_id : {GoodRequestId, "not-a-uuid", ""}, rating : 0..6]
      [] op = "credits" -> {<<>>}

\* ------------------------------------------------------- specifications
\* One call per behaviour, every operation, every outcome, both clients.
Next ==
    \/ \E k \in Kinds : Construct(k, ValidKey)
    \/ \E k \in Kinds, op \in Ops : Invoke(1, k, op, ValidArgs(k, op))
    \/ SendAttempt(1)
    \/ \E o \in AllOutcomes : Receive(1, o)
    \/ Wake(1)
    \/ \E k \in Kinds : Close(k)

Spec == Init /\ [][Next]_vars

\* The program constructs a single client, k.
OnlyClient(k) == \A j \in Kinds \ {k} : client[j].state = "absent"

\* Several calls at once on one client, interleaved at will, with the largest
\* retry budget and delay of the model.
ConcOps == {"describe", "credits"}

ConcOutcomes == {Response(200), Response(503), ConnectFail}

InitConc ==
    /\ settings = [max_retries |-> MaxRetries, retry_delay |-> MaxDelay,
                   timeout |-> NoneV]
    /\ environ = None
    /\ client = [k \in Kinds |-> AbsentClient]
    /\ call = [c \in CallIds |-> IdleCall]
    /\ built = NoRequest

NextConc ==
    \/ \E k \in Kinds : OnlyClient(k) /\ Construct(k, ValidKey)
    \/ \E c \in CallIds, k \in Kinds, op \in ConcOps :
           Invoke(c, k, op, ValidArgs(k, op))
    \/ \E c \in CallIds : SendAttempt(c)
    \/ \E c \in CallIds, o \in ConcOutcomes : Receive(c, o)
    \/ \E c \in CallIds : Wake(c)

SpecConc == InitConc /\ [][NextConc]_vars

\* The same operation called on a Client and then on an AsyncClient built
\* with the same settings: call 1 is the Client's, call 2 the AsyncClient's.
PairOutcomes == {Response(200), Response(400), Response(503), ConnectFail, ReadFail}

NextPair ==
    \/ \E k \in Kinds : Construct(k, ValidKey)
    \/ \E op \in Ops : Invoke(1, "Client", op, ValidArgs("Client", op))
    \/ /\ call[1].pc = "done"
       /\ Invoke(2, "AsyncClient", call[1].op, ValidArgs("AsyncClient", call[1].op))
    \/ \E c \in {1, 2} : SendAttempt(c)
    \/ \E c \in {1, 2}, o \in PairOutcomes : Receive(c, o)
    \/ \E c \in {1, 2} : Wake(c)

SpecPair == Init /\ [][NextPair]_vars

\* Construction and the facade with every argument list: one client, one call.
InitFacade ==
    /\ settings \in [max_retries : 0..MaxRetries, retry_delay : {1},
                     timeout : {NoneV}]
    /\ environ \in EnvDomain
    /\ client = [k \in Kinds |-> AbsentClient]
    /\ call = [c \in CallIds |-> IdleCall]
    /\ built = NoRequest

FacadeOutcomes == {Response(200), ConnectFail}

NextFacade ==
    \/ \E k \in Kinds, key \in KeyDomain : OnlyClient(k) /\ Construct(k, key)
    \/ \E k \in Kinds, op \in Ops :
           \E args \in ArgDomain(k, op) : Invoke(1, k, op, args)
    \/ SendAttempt(1)
    \/ \E o \in FacadeOutcomes : Receive(1, o)
    \/ Wake(1)

SpecFacade == InitFacade /\ [][NextFacade]_vars

\* Request objects built by the program and handed to the facade, next to
\* the same field values passed as keyword arguments: call 1 is the keyword
\* call, call 2 the call with the request object.
RequestDomain(op) ==
    CASE op \in {"describe", "classify"} ->
            [image_url : {None, GoodUrl, "ftp://a.io/x"},
             image_base64 : {None, GoodB64}]
      [] op = "ask" ->
            [image_url : {None, GoodUrl}, image_base64 : {None, GoodB64},
             question : {None, "What is this?"}]
      [] op = "extract" ->
            [image_url : {None, GoodUrl}, image_base64 : {None, GoodB64},
             fields : FieldsDomain, advanced_schema : SchemaDomain]
      [] op = "compare" ->
            [image1_url : {None, GoodUrl}, image1_base64 : {None, GoodB64},
             image2_url : {None, GoodUrl}, image2_base64 : {None, "aGk"}]
      [] op = "feedback" ->
            [request_id : {GoodRequestId, "not-a-uuid"}, rating : 0..6]

\* The keyword arguments that carry the field values of a request:
\* Client.extract_image names its schema parameter output_schema and has no
\* fields parameter.
KeywordArgs(k, op, args) ==
    IF op = "extract" /\ k = "Client"
    THEN [image_url |-> args.image_url, image_base64 |-> args.image_base64,
          output_schema |-> args.advanced_schema]
    ELSE args

InitRequests ==
    /\ settings = [max_retries |-> MaxRetries, retry_delay |-> 1,
                   timeout |-> NoneV]
    /\ environ = None
    /\ client = [k \in Kinds |-> AbsentClient]
    /\ call = [c \in CallIds |-> IdleCall]
    /\ built = NoRequest

RequestOutcomes == {Response(200), Response(503), ConnectFail}

NextRequests ==
    \/ \E k \in Kinds : OnlyClient(k) /\ Construct(k, ValidKey)
    \/ \E op \in Ops \ {"credits"} :
           \E args \in RequestDomain(op) : NewRequest(op, args)
    \/ \E k \in Kinds :
           /\ built.result = "Request"
           /\ Invoke(1, k, built.op, KeywordArgs(k, built.op, built.args))
    \/ \E k \in Kinds : Invoke(1, k, "credits", <<>>)
    \/ \E k \in Kinds : InvokeWithRequest(2, k)
    \/ \E c \in {1, 2} : SendAttempt(c)
    \/ \E c \in {1, 2}, o \in RequestOutcomes : Receive(c, o)
    \/ \E c \in {1, 2} : Wake(c)

SpecRequests == InitRequests /\ [][NextRequests]_vars

\* One call followed to the end of its facade method: the reply of a
\* successful attempt is decoded into the operation's response type.
ReplyDomain(op) ==
    {RequiredFields(op), RequiredFields(op) \cup OptionalFields(op),
     RequiredFields(op) \cup {"debug"}}
    \cup {RequiredFields(op) \ {f} : f \in RequiredFields(op)}

InitDecode ==
    /\ settings \in [max_retries : 1..MaxRetries, retry_delay : {1},
                     timeout : {NoneV}]
    /\ environ = None
    /\ client = [k \in Kinds |-> AbsentClient]
    /\ call = [c \in CallIds |-> IdleCall]
    /\ built = NoRequest

DecodeOutcomes == {Response(200), Response(404), ConnectFail}

NextDecode ==
    \/ \E k \in Kinds : OnlyClient(k) /\ Construct(k, ValidKey)
    \/ \E k \in Kinds, op \in Ops : Invoke(1, k, op, ValidArgs(k, op))
    \/ SendAttempt(1)
    \/ \E o \in DecodeOutcomes : Receive(1, o)
    \/ Wake(1)
    \/ /\ call[1].op \in Ops
       /\ \E body \in ReplyDomain(call[1].op) : Decode(1, body)

SpecDecode == InitDecode /\ [][NextDecode]_vars

\* Clients constructed with or without a timeout; attempts can time out.
SomeTimeout == Some(30)

InitTimeout ==
    /\ settings \in [max_retries : 1..MaxRetries, retry_delay : 1..MaxDelay,
                     timeout : {NoneV, SomeTimeout}]
    /\ environ = None
    /\ client = [k \in Kinds |-> AbsentClient]
    /\ call = [c \in CallIds |-> IdleCall]
    /\ built = NoRequest

TimeoutOutcomes == {Response(200), ConnectFail, ConnectTimeout, ReadTimeout}

NextTimeout ==
    \/ \E k \in Kinds : Construct(k, ValidKey)
    \/ \E k \in Kinds, op \in Ops : Invoke(1, k, op, ValidArgs(k, op))
    \/ SendAttempt(1)
    \/ \E o \in TimeoutOutcomes : Receive(1, o)
    \/ Wake(1)

SpecTimeout == InitTimeout /\ [][NextTimeout]_vars

\* Construction alone: every api_key argument, every value of the
\* environment variable, both constructors, then close().
InitKeys ==
    /\ settings \in [max_retries : 0..MaxRetries, retry_delay : {1},
                     timeout : {NoneV}]
    /\ environ \in EnvDomain
    /\ client = [k \in Kinds |-> AbsentClient]
    /\ call = [c \in CallIds |-> IdleCall]
    /\ built = NoRequest

NextKeys ==
    \/ \E k \in Kinds, key \in KeyDomain : OnlyClient(k) /\ Construct(k, key)
    \/ \E k \in Kinds : OnlyClient(k) /\ from_env(k)
    \/ \E k \in Kinds : Close(k)

SpecKeys == InitKeys /\ [][NextKeys]_vars

\* Replies that are application errors, with and without an `error` text
\* in their body, on every operation of both clients.
ErrorOutcomes ==
    {Response(200), Response(404), ErrorResponse(400, "Bad request"),
     ErrorResponse(503, "Overloaded"), ConnectFail}

InitErrors ==
    /\ settings \in [max_retries : 1..MaxRetries, retry_delay : 1..MaxDelay,
                     timeout : {NoneV}]
    /\ environ = None
    /\ client = [k \in Kinds |-> AbsentClient]
    /\ call = [c \in CallIds |-> IdleCall]
    /\ built = NoRequest

NextErrors ==
    \/ \E k \in Kinds : OnlyClient(k) /\ Construct(k, ValidKey)
    \/ \E k \in Kinds, op \in Ops : Invoke(1, k, op, ValidArgs(k, op))
    \/ SendAttempt(1)
    \/ \E o \in ErrorOutcomes : Receive(1, o)
    \/ Wake(1)

SpecErrors == InitErrors /\ [][NextErrors]_vars

\* Extract requests that break several rules at once, constructed directly
\* and through extract_image.
OrderDomain ==
    [image_url : {None, GoodUrl, "ftp://a.io/x"},
     image_base64 : {None, GoodB64, "aGk"},
     fields : FieldsDomain, advanced_schema : SchemaDomain]

OrderOutcomes == {Response(200), ConnectFail}

NextOrder ==
    \/ \E k \in Kinds : OnlyClient(k) /\ Construct(k, ValidKey)
    \/ \E args \in OrderDomain :
           call[1].pc = "idle" /\ NewRequest("extract", args)
    \/ \E k \in Kinds, args \in OrderDomain :
           /\ built = NoRequest
           /\ Invoke(1, k, "extract", KeywordArgs(k, "extract", args))
    \/ SendAttempt(1)
    \/ \E o \in OrderOutcomes : Receive(1, o)
    \/ Wake(1)

SpecOrder == InitRequests /\ [][NextOrder]_vars

\* ----------------------------------------------------------------- claims
\* The call got past the facade's argument binding and request validation
\* and entered _make_request.
Entered(r) == r.pc # "idle" /\ r.result \notin {"ValidationError", "TypeError"}

AllTransportFailures(r) ==
    \A i \in 1..Len(r.outcomes) : IsTransportFailure(r.outcomes[i])

IsPrefix(s, t) == Len(s) <= Len(t) /\ SubSeq(t, 1, Len(s)) = s

\* C1: on an open client built with max_retries = N >= 1, a call whose every
\* attempt failed at transport level never makes more than N attempts, and
\* ends after exactly N attempts by raising ConnectionError.
C1_ExactlyMaxRetriesAttempts ==
    \A c \in CallIds :
        LET r == call[c]
            cl == client[r.kind]
        IN  (/\ Entered(r)
             /\ cl.state = "open" /\ cl.max_retries >= 1
             /\ r.outcomes # <<>> /\ AllTransportFailures(r))
            => /\ r.attempts <= cl.max_retries
               /\ r.pc = "done" =>
                      r.attempts = cl.max_retries /\ r.result = "ConnectionError"

\* C2: while every attempt of a call fails at transport level, the wait after
\* failed attempt k is retry_delay * k, for every k < max_retries; and a wait
\* is only ever inserted after a transport failure that was not the call's
\* last attempt.
C2_LinearBackoff ==
    \A c \in CallIds :
        LET r == call[c]
            cl == client[r.kind]
        IN  (Entered(r) /\ cl.max_retries >= 1)
            => /\ AllTransportFailures(r) =>
                      /\ Len(r.waits) < cl.max_retries
                      /\ \A k \in 1..Len(r.waits) : r.waits[k] = cl.retry_delay * k
               /\ \A k \in 1..Len(r.waits) : IsTransportFailure(r.outcomes[k])
               /\ r.pc = "done" /\ r.outcomes # <<>> =>
                      Len(r.waits) = Len(r.outcomes) - 1

\* C3: on a client with max_retries >= 1, an attempt that received a
\* response with status >= 400 is the call's last one: no further attempt is
\* issued and the call raises APIError with that status.
C3_ApplicationErrorNotRetried ==
    \A c \in CallIds :
        LET r == call[c]
        IN  \A i \in 1..Len(r.outcomes) :
                (/\ client[r.kind].max_retries >= 1
                 /\ r.outcomes[i].kind = "response" /\ r.outcomes[i].status >= 400)
                => /\ i = Len(r.outcomes)
                   /\ r.attempts = i
                   /\ r.pc = "done"
                   /\ r.result = "APIError"
                   /\ r.status = r.outcomes[i].status

\* C4: for max_retries >= 1, the same operation on a Client and on an
\* AsyncClient built with the same settings, fed the same sequence of
\* per-attempt outcomes (each call consumes a prefix of it), ends with the same
\* number of attempts, the same waits and the same outcome of _make_request.
C4_ClientsBehaveIdentically ==
    (/\ call[1].pc = "done" /\ call[2].pc = "done"
     /\ Entered(call[1]) /\ Entered(call[2])
     /\ call[1].kind = "Client" /\ call[2].kind = "AsyncClient"
     /\ call[1].op = call[2].op
     /\ client["Client"].max_retries = client["AsyncClient"].max_retries
     /\ client["Client"].retry_delay = client["AsyncClient"].retry_delay
     /\ client["Client"].max_retries >= 1
     /\ \/ IsPrefix(call[1].outcomes, call[2].outcomes)
        \/ IsPrefix(call[2].outcomes, call[1].outcomes))
    => /\ call[1].attempts = call[2].attempts
       /\ call[1].waits = call[2].waits
       /\ call[1].result = call[2].result
       /\ call[1].status = call[2].status

\* The image-source invariant of the data model: exactly one of the two is
\* given, and the one given is a well-formed URL / base64 image.
WellFormedUrls == {"https://img.com/cat.jpg", "http://a.io", "HTTPS://a.io/x"}

WellFormedB64s == {"aGk=", "data:image/png;base64,aGk="}

IsSet(x) == x # None /\ x # ""

ImageSourceInvariant(url, b64) ==
    \/ IsSet(url) /\ ~IsSet(b64) /\ url \in WellFormedUrls
    \/ ~IsSet(url) /\ IsSet(b64) /\ b64 \in WellFormedB64s

\* The request built from the arguments breaks the image-source rule, for
\* the one image of describe, extract, classify and ask, and for either image
\* of compare.
ViolatesImageSourceRule(op, args) ==
    CASE op \in {"describe", "classify", "ask", "extract"} ->
            ~ImageSourceInvariant(args.image_url, args.image_base64)
      [] op = "compare" ->
            \/ ~ImageSourceInvariant(args.image1_url, args.image1_base64)
            \/ ~ImageSourceInvariant(args.image2_url, args.image2_base64)
      [] OTHER -> FALSE

\* C5: a facade call whose request violates a validation rule raises a
\* validation error and makes no HTTP attempt.
C5_InvalidRequestNeverSent ==
    \A c \in CallIds :
        LET r == call[c]
        IN  (r.pc # "idle" /\ ViolatesImageSourceRule(r.op, r.args))
            => /\ r.attempts = 0
               /\ r.pc = "done"
               /\ r.result = "ValidationError"

\* The key is 'vscrb-' followed by a string uuid.UUID accepts.
KeyIsPrefixedUUID(key) ==
    /\ key # None
    /\ Len(Chars(key)) >= 6
    /\ SubSeq(Chars(key), 1, 6) = <<"v", "s", "c", "r", "b", "-">>
    /\ UUID(SubSeq(Chars(key), 7, Len(Chars(key))))

\* C6: a client exists, and a session was created, only for a key that is
\* 'vscrb-' followed by a valid UUID; a construction that raised created no
\* session, and every call is made on a client with such a key.
C6_InvalidKeyNeverGetsASession ==
    /\ \A k \in Kinds :
           /\ client[k].state \in {"open", "closed"} =>
                  client[k].session /\ KeyIsPrefixedUUID(client[k].api_key)
           /\ client[k].session => KeyIsPrefixedUUID(client[k].api_key)
           /\ client[k].state \in {"absent", "failed"} => ~client[k].session
    /\ \A c \in CallIds :
           call[c].pc # "idle" => KeyIsPrefixedUUID(client[call[c].kind].api_key)

\* Client(api_key="badkey") raised, and no session exists.
C6_Witness ==
    \E k \in Kinds :
        /\ client[k].state = "failed"
        /\ client[k].arg_key = "badkey"
        /\ client[k].error = "invalid_api_key"
        /\ ~client[k].session

\* C7: for max_retries >= 1, a facade operation invoked on a closed client,
\* with a request that passes validation, issues no HTTP attempt and fails
\* with the closed-session error.
C7_ClosedClientRejectsCalls ==
    \A c \in CallIds :
        LET r == call[c]
        IN  (Entered(r) /\ r.invoked_closed /\ client[r.kind].max_retries >= 1)
            => /\ r.attempts = 0
               /\ r.pc = "done" => r.result = "RuntimeError"

\* C8: close() takes effect on a client only when none of its calls is inside
\* _make_request (it fails or waits otherwise).
C8_NoCloseUnderInFlightCall ==
    [][\A k \in Kinds :
           (client[k].state = "open" /\ client'[k].state = "closed")
           => ~\E c \in CallIds : call[c].kind = k /\ InFlight(c)]_vars

\* C9: two finished calls of the same operation on the same client whose
\* attempts saw the same outcomes (one sequence a prefix of the other) saw
\* equally many of them and ended alike: same number of attempts, same waits,
\* same result, whatever the interleaving; and each call has issued exactly
\* one attempt per outcome it saw, plus the one in flight.
C9_CallsRetriedIndependently ==
    /\ \A c \in CallIds :
           call[c].attempts =
               Len(call[c].outcomes) + (IF call[c].pc = "inflight" THEN 1 ELSE 0)
    /\ \A c1, c2 \in CallIds :
           (/\ c1 # c2
            /\ call[c1].pc = "done" /\ call[c2].pc = "done"
            /\ call[c1].kind = call[c2].kind
            /\ call[c1].op = call[c2].op
            /\ IsPrefix(call[c1].outcomes, call[c2].outcomes))
           => /\ call[c1].outcomes = call[c2].outcomes
              /\ call[c1].attempts = call[c2].attempts
              /\ call[c1].waits = call[c2].waits
              /\ call[c1].result = call[c2].result
              /\ call[c1].status = call[c2].status

\* Two calls on one AsyncClient both used up the retry budget and raised
\* ConnectionError.
C9_Witness ==
    \E c1, c2 \in CallIds :
        /\ c1 # c2
        /\ call[c1].kind = "AsyncClient" /\ call[c2].kind = "AsyncClient"
        /\ call[c1].pc = "done" /\ call[c2].pc = "done"
        /\ call[c1].result = "ConnectionError" /\ call[c2].result = "ConnectionError"
        /\ call[c1].attempts = MaxRetries /\ call[c2].attempts = MaxRetries
        /\ Len(call[c1].waits) = MaxRetries - 1

\* C10: for describe, classify and ask (with a question), the request is
\* accepted when exactly one image source is given and is well-formed, and
\* rejected when neither or both are given.
C10_ExactlyOneImageSource ==
    \A c \in CallIds :
        LET r == call[c]
        IN  (/\ r.pc # "idle"
             /\ r.op \in {"describe", "classify", "ask"}
             /\ r.op = "ask" => IsSet(r.args.question))
            => /\ ImageSourceInvariant(r.args.image_url, r.args.image_base64)
                      => r.result # "ValidationError"
               /\ IsSet(r.args.image_url) = IsSet(r.args.image_base64)
                      => /\ r.pc = "done"
                         /\ r.result = "ValidationError"
                         /\ r.error \in {"no_image_source", "both_image_sources"}
                         /\ r.attempts = 0

\* ask(image_base64="aGk=", question=...) was accepted and answered.
C10_Witness ==
    \E c \in CallIds :
        /\ call[c].pc = "done" /\ call[c].result = "ok"
        /\ call[c].op = "ask"
        /\ call[c].args.image_url = None
        /\ call[c].args.image_base64 = "aGk="

\* A set field list / advanced schema: given and not empty.
FieldsSet(fields) == fields # <<>> /\ fields[1] # <<>>

SchemaSet(schema) == schema # <<>> /\ schema[1] # <<>>

\* At most 10 entries, each of one of the four kinds.
ValidFieldList(fields) ==
    /\ Len(fields[1]) <= 10
    /\ \A i \in 1..Len(fields[1]) :
           fields[1][i].type \in {"text", "number", "array_text", "array_number"}

\* An object schema: type = 'object' and non-empty properties.
ValidObjectSchema(schema) ==
    /\ "type" \in DOMAIN schema[1] /\ schema[1].type = "object"
    /\ "properties" \in DOMAIN schema[1] /\ schema[1].properties # {}

C12_ExtractDispatchesSchemaOrFields ==
    \A c \in CallIds :
        LET r == call[c]
            schema == IF r.kind = "Client" THEN r.args.output_schema
                      ELSE r.args.advanced_schema
            fields == IF r.kind = "Client" THEN <<>> ELSE r.args.fields
            posted == \A i \in 1..Len(r.sent) :
                          r.sent[i] = [method |-> "POST", path |-> "/images/extract"]
        IN  (/\ r.pc # "idle" /\ r.op = "extract"
             /\ r.args.image_url = "https://img.com/cat.jpg"
             /\ r.args.image_base64 = None)
            => /\ (SchemaSet(schema) /\ ValidObjectSchema(schema) /\ fields = <<>>)
                      => /\ r.result # "ValidationError"
                         /\ "advanced_schema" \in DOMAIN r.payload
                         /\ r.payload.advanced_schema = schema[1]
                         /\ posted
               /\ (FieldsSet(fields) /\ ValidFieldList(fields) /\ schema = <<>>)
                      => /\ r.result # "ValidationError"
                         /\ "fields" \in DOMAIN r.payload
                         /\ r.payload.fields = fields[1]
                         /\ posted
               /\ (FieldsSet(fields) /\ SchemaSet(schema))
                      => /\ r.pc = "done" /\ r.result = "ValidationError"
                         /\ r.attempts = 0

\* Request ids that are UUIDs, among those the model submits.
ValidRequestIds == {"123e4567-e89b-12d3-a456-426614174000"}

\* C13: a feedback submission through either client is rejected before
\* dispatch, with nothing sent, if and only if its rating is outside 1..5 or
\* its request_id is not a UUID: a submission with a rating in 1..5 and a
\* UUID passes and is dispatched.
C13_FeedbackRejectedIffInvalid ==
    \A c \in CallIds :
        LET r == call[c]
            invalid == \/ r.args.rating < 1 \/ r.args.rating > 5
                       \/ r.args.request_id \notin ValidRequestIds
        IN  (r.pc # "idle" /\ r.op = "feedback")
            => /\ invalid => /\ r.pc = "done" /\ ~Entered(r)
                             /\ r.attempts = 0
               /\ ~invalid => Entered(r)

\* C14: a compare call that passed validation and was dispatched has exactly
\* one well-formed source for image 1 and exactly one for image 2.
C14_CompareDispatchedOnlyWithValidSources ==
    \A c \in CallIds :
        LET r == call[c]
        IN  (r.op = "compare" /\ Entered(r))
            => /\ ImageSourceInvariant(r.args.image1_url, r.args.image1_base64)
               /\ ImageSourceInvariant(r.args.image2_url, r.args.image2_base64)

\* C15: a facade method called with a request object and the same method of
\* the same client called with that request's field values as keyword
\* arguments fare alike: both pass binding and validation or neither does,
\* and when they pass they carry the same payload to the same endpoint.
C15_RequestObjectEquivalentToKeywords ==
    (/\ call[1].pc # "idle" /\ call[2].pc # "idle"
     /\ call[1].form = "keywords" /\ call[2].form = "request"
     /\ call[1].kind = call[2].kind
     /\ call[1].op = call[2].op
     /\ call[2].args = built.args)
    => /\ Entered(call[1]) <=> Entered(call[2])
       /\ (Entered(call[1]) /\ Entered(call[2]))
              => /\ call[1].payload = call[2].payload
                 /\ call[1].method = call[2].method
                 /\ call[1].path = call[2].path

\* The method and path the interface fixes for each operation.
FixedEndpoint(op) ==
    CASE op = "describe" -> [method |-> "POST", path |-> "/images/describe"]
      [] op = "extract"  -> [method |-> "POST", path |-> "/images/extract"]
      [] op = "classify" -> [method |-> "POST", path |-> "/images/classify"]
      [] op = "ask"      -> [method |-> "POST", path |-> "/images/ask"]
      [] op = "compare"  -> [method |-> "POST", path |-> "/images/compare"]
      [] op = "feedback" -> [method |-> "POST", path |-> "/feedback"]
      [] op = "credits"  -> [method |-> "GET", path |-> "/credits"]

C17_MisshapenReplyFailsDecode ==
    \A c \in CallIds :
        LET r == call[c]
            missing == RequiredFields(r.op) \ r.reply
            unknown == r.reply \ (RequiredFields(r.op) \cup OptionalFields(r.op))
        IN  (r.decoded # "-" /\ (missing # {} \/ unknown # {}))
            => /\ r.decoded = "ValidationError"
               /\ r.pc = "done"
               /\ r.attempts = Len(r.outcomes)
               /\ r.outcomes[Len(r.outcomes)].kind = "response"

\* C18: a call on an open client whose request passed validation issues at
\* least one HTTP attempt before it ends, never more than max_retries of
\* them (for max_retries >= 1), and none after an attempt that received a
\* response.
C18_OnceAndBoundedAttempts ==
    \A c \in CallIds :
        LET r == call[c]
            cl == client[r.kind]
        IN  (Entered(r) /\ cl.state = "open")
            => /\ r.pc = "done" => r.attempts >= 1
               /\ cl.max_retries >= 1 => r.attempts <= cl.max_retries
               /\ \A i \in 1..Len(r.outcomes) :
                      r.outcomes[i].kind = "response"
                      => i = Len(r.outcomes) /\ r.attempts = i

\* C19: _make_request ends in one of two ways only: it returns the decoded
\* JSON body of a response with status < 400, or it raises APIError or
\* ConnectionError.
C19_ReturnsBodyOrRaisesDomainError ==
    \A c \in CallIds :
        LET r == call[c]
        IN  (Entered(r) /\ r.pc = "done")
            => \/ /\ r.result = "ok"
                  /\ r.outcomes # <<>>
                  /\ r.outcomes[Len(r.outcomes)].kind = "response"
                  /\ r.outcomes[Len(r.outcomes)].status < 400
               \/ r.result \in {"APIError", "ConnectionError"}

\* C20: on a client constructed with a timeout and max_retries >= 1, a call
\* whose every attempt timed out is retried like any transport failure: it
\* never makes more than max_retries attempts, ends only after max_retries
\* attempts, and ends by raising ConnectionError.
C20_TimeoutRetriedAsTransportFailure ==
    \A c \in CallIds :
        LET r == call[c]
            cl == client[r.kind]
        IN  (/\ Entered(r)
             /\ cl.timeout # <<>> /\ cl.max_retries >= 1
             /\ r.outcomes # <<>>
             /\ \A i \in 1..Len(r.outcomes) : IsTimeout(r.outcomes[i]))
            => /\ r.attempts <= cl.max_retries
               /\ r.pc = "done" =>
                      r.attempts = cl.max_retries /\ r.result = "ConnectionError"

\* C21: a client constructed with an explicit key holds that key whatever
\* the environment says; constructed without one (or through from_env) it
\* holds the value of VISCRIBE_API_KEY; when neither has a non-empty key the
\* construction raised and no client or session exists; and in every case a
\* client exists only when the resolved key is 'vscrb-' plus a UUID, and
\* always when it is one of the well-formed keys.
WellFormedKeys ==
    {"vscrb-123e4567-e89b-12d3-a456-426614174000",
     "vscrb-123e4567e89b12d3a456426614174000"}

C21_KeyResolvedFromArgumentThenEnvironment ==
    \A k \in Kinds :
        LET cl == client[k]
            explicit == cl.via = "init" /\ cl.arg_key # None
            resolved == IF explicit THEN cl.arg_key ELSE environ
        IN  cl.state # "absent" =>
                /\ cl.state \in {"open", "closed"} => KeyIsPrefixedUUID(resolved)
                /\ resolved \in WellFormedKeys => cl.state \in {"open", "closed"}
                /\ cl.state \in {"open", "closed"} =>
                       cl.api_key = resolved /\ cl.session
                /\ cl.state = "failed" =>
                       /\ ~cl.session /\ cl.api_key = None
                       /\ cl.error \in {"key_not_provided", "env_not_set",
                                        "invalid_api_key"}
                /\ (~explicit \/ cl.arg_key = "") /\ environ \in {None, ""} =>
                       cl.state = "failed"
                /\ ~explicit /\ environ \in {None, ""} =>
                       cl.error \in {"key_not_provided", "env_not_set"}

\* Client() with VISCRIBE_API_KEY holding a valid key gave a client with it.
C21_Witness ==
    \E k \in Kinds :
        /\ client[k].state = "open"
        /\ client[k].via = "init" /\ client[k].arg_key = None
        /\ client[k].api_key = environ

\* C22: a call one of whose attempts received a response with status >= 400
\* ends by raising APIError with that response's status code and with the
\* text of its body's `error` field, or 'Unknown error occurred' when the
\* body has none; and no APIError is raised with anything else.
C22_APIErrorCarriesStatusAndMessage ==
    \A c \in CallIds :
        LET r == call[c]
            Msg(o) == IF "error" \in DOMAIN o
                      THEN o.error ELSE "Unknown error occurred"
        IN  /\ r.pc = "done" =>
                   \A i \in 1..Len(r.outcomes) :
                       r.outcomes[i].kind = "response" /\ r.outcomes[i].status >= 400
                       => /\ r.result = "APIError"
                          /\ r.status = r.outcomes[i].status
                          /\ r.message = Msg(r.outcomes[i])
            /\ r.result = "APIError" =>
                   /\ r.outcomes # <<>>
                   /\ r.outcomes[Len(r.outcomes)].kind = "response"
                   /\ r.status = r.outcomes[Len(r.outcomes)].status
                   /\ r.status >= 400
                   /\ r.message = Msg(r.outcomes[Len(r.outcomes)])

\* C23: an ask call whose question is missing, None or the empty string is
\* rejected by validation and no HTTP attempt is made for it.
C23_AskWithoutQuestionRejected ==
    \A c \in CallIds :
        LET r == call[c]
        IN  (r.pc # "idle" /\ r.op = "ask" /\ r.args.question \in {None, ""})
            => /\ r.pc = "done"
               /\ r.result = "ValidationError"
               /\ r.attempts = 0

\* C24: the error reported for an extract request is that of the earliest
\* violated rule: while the image-source exclusivity rule is violated the
\* error is that rule's; otherwise, while the format of the one source is
\* violated, the error is the format rule's; and the advanced-schema shape
\* error is not reported while fields and advanced_schema are both or
\* neither set.  This holds for ImageExtractRequest(...) constructed
\* directly and for extract_image(...).
FirstViolatedRuleReported(a, e) ==
    /\ (IsSet(a.image_url) = IsSet(a.image_base64))
           => e \in {"no_image_source", "both_image_sources"}
    /\ (/\ IsSet(a.image_url) # IsSet(a.image_base64)
        /\ ~ImageSourceInvariant(a.image_url, a.image_base64))
           => e \in {"invalid_image_url", "invalid_image_base64"}
    /\ (/\ "fields" \in DOMAIN a
        /\ ImageSourceInvariant(a.image_url, a.image_base64)
        /\ FieldsSet(a.fields) = SchemaSet(a.advanced_schema))
           => e # "invalid_advanced_schema"

C24_FirstViolatedRuleIsReported ==
    /\ built.result = "ValidationError"
           => FirstViolatedRuleReported(built.args, built.error)
    /\ \A c \in CallIds :
           call[c].op = "extract" /\ call[c].result = "ValidationError"
           => FirstViolatedRuleReported(call[c].args, call[c].error)

\* C25: the payload of every describe, extract, classify or ask call that
\* entered _make_request has exactly one of the keys image_url and
\* image_base64, neither of them with the value None, and, for extract,
\* exactly one of the keys fields and advanced_schema.
C25_PayloadHasExactlyOneSourceKey ==
    \A c \in CallIds :
        LET r == call[c]
            keys == IF r.payload = <<>> THEN {} ELSE DOMAIN r.payload
        IN  (Entered(r) /\ r.op \in {"describe", "extract", "classify", "ask"})
            => /\ ("image_url" \in keys) # ("image_base64" \in keys)
               /\ \A key \in keys \cap {"image_url", "image_base64"} :
                      r.payload[key] # None
               /\ r.op = "extract" =>
                      ("fields" \in keys) # ("advanced_schema" \in keys)

\* C26: for an ImageExtractRequest with one well-formed image source,
\* fields=[] with a valid advanced_schema is accepted, a valid field list
\* with advanced_schema={} is accepted, and fields=[] or advanced_schema={}
\* with nothing else is rejected with the 'either must be provided' error.
C26_EmptyFieldsOrSchemaCountAsNotSet ==
    LET fields == built.args.fields
        schema == built.args.advanced_schema
        Empty == <<(<<>>)>>
    IN  (/\ built.op = "extract"
         /\ ImageSourceInvariant(built.args.image_url, built.args.image_base64))
        => /\ (fields = Empty /\ SchemaSet(schema) /\ ValidObjectSchema(schema))
                  => built.result = "Request"
           /\ (FieldsSet(fields) /\ ValidFieldList(fields) /\ schema = Empty)
                  => built.result = "Request"
           /\ (/\ fields \in {<<>>, Empty} /\ schema \in {<<>>, Empty}
               /\ Empty \in {fields, schema})
                  => /\ built.result = "ValidationError"
                     /\ built.error = "no_fields_or_schema"

\* ImageExtractRequest(image_url=..., fields=[], advanced_schema=<valid>) was
\* accepted.
C26_Witness ==
    /\ built.op = "extract" /\ built.result = "Request"
    /\ built.args.fields = <<(<<>>)>>
    /\ SchemaSet(built.args.advanced_schema)

\* C27: for describe and classify, image_url="" with a well-formed
\* image_base64, and image_base64="" with a well-formed image_url, pass
\* validation; both being "" is rejected as no source given, unsent; and a
\* source that is "" never yields that source's format error.
C27_EmptyStringSourceCountsAsNotSet ==
    \A c \in CallIds :
        LET r == call[c]
            url == r.args.image_url
            b64 == r.args.image_base64
        IN  (r.pc # "idle" /\ r.op \in {"describe", "classify"})
            => /\ (url = "" /\ b64 \in WellFormedB64s) => Entered(r)
               /\ (b64 = "" /\ url \in WellFormedUrls) => Entered(r)
               /\ (url = "" /\ b64 = "")
                      => /\ r.pc = "done" /\ r.result = "ValidationError"
                         /\ r.error = "no_image_source"
                         /\ r.attempts = 0
               /\ url = "" => r.error # "invalid_image_url"
               /\ b64 = "" => r.error # "invalid_image_base64"

\* describe_image(image_url="", image_base64="aGk=") was accepted and sent.
C27_Witness ==
    \E c \in CallIds :
        /\ call[c].op = "describe"
        /\ call[c].args.image_url = "" /\ call[c].args.image_base64 = "aGk="
        /\ Entered(call[c]) /\ call[c].attempts >= 1

====
